---- MODULE Spec2Model ----
(***************************************************************************)
(* Model of the ImageResize controller (src/unnamed/part_000): the         *)
(* selection / overlay lifecycle of one controller attached to one editor. *)
(* Every event handler runs to completion (single-threaded DOM), so each   *)
(* handler is one action.  The calls a handler makes to the host editor,   *)
(* the DOM and the module instances are recorded, in call order, in `log`. *)
(***************************************************************************)
EXTENDS Integers, Sequences, FiniteSets, TLC

(* ----------------------------- bounds --------------------------------- *)
NumImages == 2          \* image nodes in the document
MaxShow   == 2          \* overlays created in one behaviour
MaxCoord  == 1          \* largest coordinate of the measured boxes

(* ---------------------------- constants ------------------------------- *)
undefined == 0          \* the JavaScript value `undefined` of a reference
KeyDelete == 46
KeyBackspace == 8

Images  == 1..NumImages
NonImage == NumImages + 1         \* an event target whose tagName is not IMG
Targets == Images \cup {NonImage}
KeyCodes == {KeyDelete, KeyBackspace, 13}

(* knownModules: the table of built-in module constructors *)
knownModules == [DisplaySize |-> "class DisplaySize", Resize |-> "class Resize"]

(* values options.modules can take: names of built-ins or constructors *)
ModuleLists ==
  { <<>>,
    <<"DisplaySize">>,
    <<"DisplaySize", "Resize">>,
    <<"Resize", "class Custom">> }

(* new (knownModules[ModuleClass] || ModuleClass)(this): the constructor *)
Resolve(ModuleClass) ==
  IF ModuleClass \in DOMAIN knownModules THEN knownModules[ModuleClass]
                                         ELSE ModuleClass

(* a CSS length as the template literal `${n}px` builds it *)
Px(n) == [n |-> n, unit |-> "px"]
Unset == [n |-> 0, unit |-> ""]
overlayStyles == [left |-> Unset, top |-> Unset, width |-> Unset, height |-> Unset]

(* rendered boxes (getBoundingClientRect) and scroll offsets of the parent: *)
(* the images are stacked in the editor, which is scrolled by `by`        *)
ImgRect(i, by) ==
  [ left |-> 110, top |-> 40 + 160 * (i - 1) - by,
    width |-> IF i = 1 THEN 200 ELSE 64, height |-> IF i = 1 THEN 150 ELSE 48 ]
Layout(by, scrollLeft) ==
  [ imgRect |-> [i \in Images |-> ImgRect(i, by)],
    containerRect |-> [left |-> 100, top |-> 20],
    scrollLeft |-> scrollLeft, scrollTop |-> 0 ]
Layouts == { Layout(0, 5), Layout(0, 0), Layout(30, 5) }
(* quill.getIndex(blot): images keep their document order *)
Indexes == { [i \in Images |-> i - 1], [i \in Images |-> 2 * i] }

(* a hook or constructor that throws: the at-th call of one pass *)
NoFault == [op |-> "none", at |-> 0]
Faults == [op : {"new", "onCreate", "onDestroy"}, at : 1..2]

Listener(target, type, callback, capture) ==
  [target |-> target, type |-> type, callback |-> callback, capture |-> capture]

VARIABLES
  moduleClasses,  \* this.moduleClasses
  img,            \* this.img
  overlay,        \* this.overlay: the overlay element, or undefined
  modules,        \* this.modules: the list of module instances
  listeners,      \* the registered DOM event listeners
  children,       \* overlay elements attached to quill.root.parentNode
  style,          \* the style of the overlay element last created
  selection,      \* the host editor's selection
  nextEl,         \* identity of the next element createElement returns
  nextInst,       \* identity of the next module instance
  layout,         \* current measurements of the page
  index,          \* current document index of each image
  evt,            \* the event the last handler ran for
  log,            \* calls made by the last handler, in order
  life,           \* per module instance: how far its hooks have taken it
  deleted         \* number of deleteAt commands issued to the host

vars == << moduleClasses, img, overlay, modules, listeners, children, style,
           selection, nextEl, nextInst, layout, index, evt, log, life, deleted >>

(* the controller and what it acts on, as one value the handlers transform *)
Cur ==
  [ img |-> img, overlay |-> overlay, modules |-> modules,
    listeners |-> listeners, children |-> children, style |-> style,
    selection |-> selection, nextEl |-> nextEl, nextInst |-> nextInst,
    log |-> <<>>, fault |-> NoFault, thrown |-> FALSE ]

Ev(op, a, b) == [op |-> op, a |-> a, b |-> b]
Emit(s, op, a, b) == [s EXCEPT !.log = Append(@, Ev(op, a, b))]

(* modules.forEach(module => module.<hook>()): a hook that throws ends    *)
(* the pass, and the exception leaves the handler                          *)
ForEachHook(s, hook) ==
  LET n == Len(s.modules)
      k == IF s.fault.op = hook /\ s.fault.at <= n THEN s.fault.at ELSE 0
  IN IF k = 0
     THEN [s EXCEPT !.log = @ \o [i \in 1..n |-> Ev(hook, s.modules[i].id, i)]]
     ELSE [s EXCEPT !.log = (@ \o [i \in 1..k |-> Ev(hook, s.modules[i].id, i)])
                               \o <<Ev("throw", s.modules[k].id, k)>>,
                    !.thrown = TRUE]

(* ------------------------- controller methods ------------------------- *)

repositionElements_noBorder(s, lay) ==
  IF s.overlay = undefined \/ s.img = undefined THEN s
  ELSE LET imgRect == lay.imgRect[s.img]
           containerRect == lay.containerRect
           box == [ left   |-> Px(imgRect.left - containerRect.left + lay.scrollLeft),
                    top    |-> Px(imgRect.top - containerRect.top + lay.scrollTop),
                    width  |-> Px(imgRect.width),
                    height |-> Px(imgRect.height) ]
       IN Emit([s EXCEPT !.style = box], "reposition", s.overlay, 0)

repositionElements_relative(s, lay) ==
  IF s.overlay = undefined \/ s.img = undefined THEN s
  ELSE LET imgRect == lay.imgRect[s.img]
           containerRect == lay.containerRect
           box == [ left   |-> Px(s.style.left.n + imgRect.left - containerRect.left - 1
                                    + lay.scrollLeft),
                    top    |-> Px(s.style.top.n + imgRect.top - containerRect.top
                                    + lay.scrollTop),
                    width  |-> Px(imgRect.width),
                    height |-> Px(imgRect.height) ]
       IN Emit([s EXCEPT !.style = box], "reposition", s.overlay, 0)

repositionElements(s, lay) ==
  IF s.overlay = undefined \/ s.img = undefined THEN s
  ELSE LET imgRect == lay.imgRect[s.img]
           containerRect == lay.containerRect
           box == [ left   |-> Px(imgRect.left - containerRect.left - 1 + lay.scrollLeft),
                    top    |-> Px(imgRect.top - containerRect.top + lay.scrollTop),
                    width  |-> Px(imgRect.width),
                    height |-> Px(imgRect.height) ]
       IN Emit([s EXCEPT !.style = box], "reposition", s.overlay, 0)

removeModules_reversed(s) ==
  LET n == Len(s.modules)
  IN [s EXCEPT !.modules = <<>>,
               !.log = @ \o [i \in 1..n |->
                               Ev("onDestroy", s.modules[n + 1 - i].id, n + 1 - i)]]

removeModules(s) ==
  LET s1 == ForEachHook(s, "onDestroy")
  IN IF s1.thrown THEN s1 ELSE [s1 EXCEPT !.modules = <<>>]

onUpdate(s, lay) ==
  ForEachHook(repositionElements(s, lay), "onUpdate")

initializeModules_noUpdate(s, lay) ==
  LET s1 == removeModules(s)
      n  == Len(moduleClasses)
      instances == [i \in 1..n |-> [id |-> s1.nextInst + i - 1,
                                    cls |-> Resolve(moduleClasses[i])]]
      s2 == [s1 EXCEPT !.modules = instances,
                       !.nextInst = @ + n,
                       !.log = @ \o [i \in 1..n |-> Ev("new", instances[i].id, i)]]
  IN ForEachHook(s2, "onCreate")

initializeModules_interleaved(s, lay) ==
  LET s1 == removeModules(s)
      n  == Len(moduleClasses)
      instances == [i \in 1..n |-> [id |-> s1.nextInst + i - 1,
                                    cls |-> Resolve(moduleClasses[i])]]
      s2 == [s1 EXCEPT !.modules = instances,
                       !.nextInst = @ + n,
                       !.log = @ \o [i \in 1..n |-> Ev("new", instances[i].id, i)]]
      s3 == repositionElements(s2, lay)
  IN [s3 EXCEPT !.log = @ \o [k \in 1..(2 * n) |->
                                 IF k % 2 = 1
                                 THEN Ev("onCreate", instances[(k + 1) \div 2].id, (k + 1) \div 2)
                                 ELSE Ev("onUpdate", instances[k \div 2].id, k \div 2)]]

initializeModules(s, lay) ==
  LET s1 == removeModules(s)
      n  == Len(moduleClasses)
      instances == [i \in 1..n |-> [id |-> s1.nextInst + i - 1,
                                    cls |-> Resolve(moduleClasses[i])]]
      k  == IF s1.fault.op = "new" /\ s1.fault.at <= n THEN s1.fault.at ELSE 0
      \* the k-th constructor throws inside map: this.modules is not assigned
      failed == [s1 EXCEPT !.nextInst = @ + k - 1,
                           !.log = (@ \o [i \in 1..(k - 1) |-> Ev("new", instances[i].id, i)])
                                      \o <<Ev("throw", 0, k)>>,
                           !.thrown = TRUE]
      s2 == [s1 EXCEPT !.modules = instances,
                       !.nextInst = @ + n,
                       !.log = @ \o [i \in 1..n |-> Ev("new", instances[i].id, i)]]
      s3 == ForEachHook(s2, "onCreate")
  IN IF s1.thrown THEN s1
     ELSE IF k # 0 THEN failed
     ELSE IF s3.thrown THEN s3
     ELSE onUpdate(s3, lay)

hideOverlay(s) ==
  IF s.overlay = undefined THEN s
  ELSE LET s1 == Emit([s EXCEPT !.children = @ \ {s.overlay}], "removeChild", s.overlay, 0)
           s2 == [s1 EXCEPT !.overlay = undefined]
       IN \* removeEventListener without a capture argument: capture = false
          [s2 EXCEPT !.listeners = @ \ { Listener("document", "keyup", "checkImage", FALSE),
                                        Listener("root", "input", "checkImage", FALSE) }]

showOverlay_noHide(s, lay, idx) ==
  LET s1 == Emit([s EXCEPT !.selection = [index |-> idx[s.img], length |-> 0]],
                 "setSelection", idx[s.img], 0)
      s2 == Emit(Emit([s1 EXCEPT !.listeners = @ \cup
                          { Listener("document", "keyup", "checkImage", TRUE),
                            Listener("root", "input", "checkImage", TRUE) }],
                      "addEventListener", 1, 1), "addEventListener", 2, 1)
      s3 == Emit([s2 EXCEPT !.overlay = s2.nextEl, !.nextEl = @ + 1,
                            !.style = overlayStyles],
                 "createElement", s2.nextEl, 0)
      s4 == Emit([s3 EXCEPT !.children = @ \cup {s3.overlay}], "appendChild", s3.overlay, 0)
  IN repositionElements(s4, lay)

showOverlay_bothPhases(s, lay, idx) ==
  LET s0 == IF s.overlay # undefined THEN hideOverlay(s) ELSE s
      s1 == Emit([s0 EXCEPT !.selection = [index |-> idx[s0.img], length |-> 0]],
                 "setSelection", idx[s0.img], 0)
      s2 == Emit(Emit([s1 EXCEPT !.listeners = @ \cup
                          { Listener("document", "keyup", "checkImage", TRUE),
                            Listener("document", "keyup", "checkImage", FALSE),
                            Listener("root", "input", "checkImage", TRUE),
                            Listener("root", "input", "checkImage", FALSE) }],
                      "addEventListener", 1, 1), "addEventListener", 2, 1)
      s3 == Emit([s2 EXCEPT !.overlay = s2.nextEl, !.nextEl = @ + 1,
                            !.style = overlayStyles],
                 "createElement", s2.nextEl, 0)
      s4 == Emit([s3 EXCEPT !.children = @ \cup {s3.overlay}], "appendChild", s3.overlay, 0)
  IN repositionElements(s4, lay)

showOverlay(s, lay, idx) ==
  LET s0 == IF s.overlay # undefined THEN hideOverlay(s) ELSE s
      s1 == Emit([s0 EXCEPT !.selection = [index |-> idx[s0.img], length |-> 0]],
                 "setSelection", idx[s0.img], 0)
      s2 == Emit(Emit([s1 EXCEPT !.listeners = @ \cup
                          { Listener("document", "keyup", "checkImage", TRUE),
                            Listener("root", "input", "checkImage", TRUE) }],
                      "addEventListener", 1, 1), "addEventListener", 2, 1)
      s3 == Emit([s2 EXCEPT !.overlay = s2.nextEl, !.nextEl = @ + 1,
                            !.style = overlayStyles],
                 "createElement", s2.nextEl, 0)
      s4 == Emit([s3 EXCEPT !.children = @ \cup {s3.overlay}], "appendChild", s3.overlay, 0)
  IN repositionElements(s4, lay)

hide_noClear(s) ==
  removeModules(hideOverlay(s))

hide_modulesFirst(s) ==
  LET s1 == removeModules(s)
      s2 == hideOverlay(s1)
  IN IF s2.img = undefined THEN s2
     ELSE Emit([s2 EXCEPT !.img = undefined], "img", undefined, 0)

hide(s) ==
  LET s1 == hideOverlay(s)
      s2 == removeModules(s1)
  IN IF s2.thrown \/ s2.img = undefined THEN s2
     ELSE Emit([s2 EXCEPT !.img = undefined], "img", undefined, 0)

show_modulesFirst(s, image, lay, idx) ==
  LET s1 == Emit([s EXCEPT !.img = image], "img", image, 0)
      s2 == initializeModules(s1, lay)
  IN showOverlay(s2, lay, idx)

show(s, image, lay, idx) ==
  LET s1 == Emit([s EXCEPT !.img = image], "img", image, 0)
      s2 == showOverlay(s1, lay, idx)
  IN initializeModules(s2, lay)

handleClick_noReturn(s, target, lay, idx) ==
  IF target \in Images
  THEN LET s1 == IF s.img # undefined THEN hide(s) ELSE s
       IN Emit(show(s1, target, lay, idx), "preventDefault", 0, 0)
  ELSE IF s.img # undefined THEN hide(s) ELSE s

handleClick_noHide(s, target, lay, idx) ==
  IF target \in Images
  THEN IF s.img = target THEN s
       ELSE Emit(show(s, target, lay, idx), "preventDefault", 0, 0)
  ELSE IF s.img # undefined THEN hide(s) ELSE s

handleClick(s, target, lay, idx) ==
  IF target \in Images
  THEN IF s.img = target THEN s
       ELSE LET s1 == IF s.img # undefined THEN hide(s) ELSE s
                s2 == show(s1, target, lay, idx)
            IN IF s1.thrown THEN s1
               ELSE IF s2.thrown THEN s2
               ELSE Emit(s2, "preventDefault", 0, 0)
  ELSE IF s.img # undefined THEN hide(s) ELSE s

handleScroll_overlayOnly(s) == hideOverlay(s)

handleScroll(s) == hide(s)

checkImage_anyKey(s, keyCode) ==
  IF s.img # undefined
  THEN LET s1 == IF keyCode # undefined
                 THEN Emit(s, "deleteAt", s.img, 0) ELSE s
       IN hide(s1)
  ELSE s

checkImage_noGuard(s, keyCode) ==
  LET s1 == IF keyCode = KeyDelete \/ keyCode = KeyBackspace
            THEN Emit(s, "deleteAt", s.img, 0) ELSE s
  IN hide(s1)

checkImage_hideFirst(s, keyCode) ==
  IF s.img # undefined
  THEN LET s1 == hide(s)
       IN IF keyCode = KeyDelete \/ keyCode = KeyBackspace
          THEN Emit(s1, "deleteAt", s.img, 0) ELSE s1
  ELSE s

checkImage(s, keyCode) ==
  IF s.img # undefined
  THEN LET s1 == IF keyCode = KeyDelete \/ keyCode = KeyBackspace
                 THEN Emit(s, "deleteAt", s.img, 0) ELSE s
       IN hide(s1)
  ELSE s

textChange_onUpdate(s, lay) == onUpdate(s, lay)

(* the callback registered with quill.on('text-change', ...) *)
textChange(s, lay) == repositionElements(s, lay)

(* what a call does to the module instance it is made on: an instance is *)
(* constructed, then created (onCreate), then updated (onUpdate, any       *)
(* number of times), then destroyed (onDestroy); a hook out of this order  *)
(* leaves the instance "bad"                                               *)
LifeStep(l, e) ==
  IF e.op = "new"
  THEN IF e.a = Len(l) + 1 THEN Append(l, "constructed")
       ELSE [i \in 1..Len(l) |-> IF i = e.a THEN "bad" ELSE l[i]]
  ELSE IF e.op \in {"onCreate", "onUpdate", "onDestroy"} /\ e.a \in 1..Len(l)
  THEN [l EXCEPT ![e.a] =
          IF e.op = "onCreate" /\ @ = "constructed" THEN "created"
          ELSE IF e.op = "onUpdate" /\ @ \in {"created", "updated"} THEN "updated"
          ELSE IF e.op = "onDestroy" /\ @ = "updated" THEN "destroyed"
          ELSE "bad"]
  ELSE l

RECURSIVE Replay(_, _)
Replay(l, calls) ==
  IF calls = <<>> THEN l ELSE Replay(LifeStep(l, Head(calls)), Tail(calls))

Deletes(calls) == Len(SelectSeq(calls, LAMBDA e : e.op = "deleteAt"))

(* ------------------------------ actions ------------------------------- *)

Apply(s) ==
  /\ img' = s.img
  /\ overlay' = s.overlay
  /\ modules' = s.modules
  /\ listeners' = s.listeners
  /\ children' = s.children
  /\ style' = s.style
  /\ selection' = s.selection
  /\ nextEl' = s.nextEl
  /\ nextInst' = s.nextInst
  /\ log' = s.log
  /\ life' = Replay(life, s.log)
  /\ deleted' = deleted + Deletes(s.log)

Event(type, target, keyCode) == [type |-> type, target |-> target, keyCode |-> keyCode]

Init ==
  /\ moduleClasses \in ModuleLists
  /\ img = undefined
  /\ overlay = undefined
  /\ modules = <<>>
  /\ listeners = { Listener("root", "click", "handleClick", FALSE),
                   Listener("root", "mscontrolselect", "handleClick", FALSE),
                   Listener("root", "scroll", "handleScroll", FALSE) }
  /\ children = {}
  /\ style = overlayStyles
  /\ selection = [index |-> 0, length |-> 0]
  /\ nextEl = 1
  /\ nextInst = 1
  /\ layout \in Layouts
  /\ index \in Indexes
  /\ evt = Event("construct", undefined, undefined)
  /\ log = <<>>
  /\ life = <<>>
  /\ deleted = 0

(* a click or mscontrolselect event on the editor root *)
Activate(type) ==
  /\ Listener("root", type, "handleClick", FALSE) \in listeners
  /\ \E target \in Targets :
       /\ (target \in Images /\ target # img) => nextEl <= MaxShow
       /\ evt' = Event(type, target, undefined)
       /\ Apply(handleClick(Cur, target, layout, index))
  /\ UNCHANGED << moduleClasses, layout, index >>

Click == Activate("click")

MsControlSelect == Activate("mscontrolselect")

(* a scroll event on the editor root: the images move in the viewport *)
Scroll ==
  /\ Listener("root", "scroll", "handleScroll", FALSE) \in listeners
  /\ \E lay \in Layouts :
       /\ lay.scrollLeft = layout.scrollLeft
       /\ layout' = lay
  /\ evt' = Event("scroll", undefined, undefined)
  /\ Apply(handleScroll(Cur))
  /\ UNCHANGED << moduleClasses, index >>

(* a keyup event anywhere in the document *)
KeyUp ==
  /\ Listener("document", "keyup", "checkImage", TRUE) \in listeners
  /\ \E keyCode \in KeyCodes :
       /\ evt' = Event("keyup", undefined, keyCode)
       /\ Apply(checkImage(Cur, keyCode))
  /\ UNCHANGED << moduleClasses, layout, index >>

(* an input event on the editor root; it carries no keyCode *)
Input ==
  /\ Listener("root", "input", "checkImage", TRUE) \in listeners
  /\ evt' = Event("input", undefined, undefined)
  /\ Apply(checkImage(Cur, undefined))
  /\ UNCHANGED << moduleClasses, layout, index >>

(* quill's text-change notification: the content, and so the layout and   *)
(* the indexes, have changed                                              *)
TextChange ==
  /\ layout' \in Layouts
  /\ index' \in Indexes
  /\ evt' = Event("text-change", undefined, undefined)
  /\ Apply(textChange(Cur, layout'))
  /\ UNCHANGED moduleClasses

(* a module instance asks the controller to update (this.onUpdate())     *)
RequestUpdate ==
  /\ modules # <<>>
  /\ evt' = Event("update", undefined, undefined)
  /\ Apply(onUpdate(Cur, layout))
  /\ UNCHANGED << moduleClasses, layout, index >>

Next ==
  \/ Click
  \/ MsControlSelect
  \/ Scroll
  \/ KeyUp
  \/ Input
  \/ TextChange
  \/ RequestUpdate

Spec == Init /\ [][Next]_vars

(* ------------------- hooks and constructors that throw ----------------- *)

CurFault(f) == [Cur EXCEPT !.fault = f]

InitFault ==
  /\ Init
  /\ moduleClasses = <<"DisplaySize", "Resize">>
  /\ layout = Layout(0, 5)
  /\ index = [i \in Images |-> i - 1]

(* a click during which a constructor or a hook throws, if the handler    *)
(* comes to call it                                                        *)
FaultyClick ==
  /\ Listener("root", "click", "handleClick", FALSE) \in listeners
  /\ \E target \in Targets, f \in Faults :
       /\ (target \in Images /\ target # img) => nextEl <= MaxShow
       /\ evt' = Event("click", target, undefined)
       /\ Apply(handleClick(CurFault(f), target, layout, index))
  /\ UNCHANGED << moduleClasses, layout, index >>

(* a scroll during which an onDestroy hook throws *)
FaultyScroll ==
  /\ Listener("root", "scroll", "handleScroll", FALSE) \in listeners
  /\ \E f \in Faults :
       /\ evt' = Event("scroll", undefined, undefined)
       /\ Apply(handleScroll(CurFault(f)))
  /\ UNCHANGED << moduleClasses, layout, index >>

(* a keyup during which an onDestroy hook throws *)
FaultyKeyUp ==
  /\ Listener("document", "keyup", "checkImage", TRUE) \in listeners
  /\ deleted < MaxShow
  /\ \E keyCode \in KeyCodes, f \in Faults :
       /\ evt' = Event("keyup", undefined, keyCode)
       /\ Apply(checkImage(CurFault(f), keyCode))
  /\ UNCHANGED << moduleClasses, layout, index >>

NextFault ==
  \/ FaultyClick
  \/ FaultyScroll
  \/ FaultyKeyUp

SpecFault == InitFault /\ [][NextFault]_vars

(* ------------- the overlay operations called directly ------------------ *)

(* this.showOverlay() called on the controller while an image is active    *)
CallShowOverlay ==
  /\ img # undefined
  /\ overlay # undefined
  /\ nextEl <= MaxShow
  /\ evt' = Event("showOverlay", undefined, undefined)
  /\ Apply(showOverlay(Cur, layout, index))
  /\ UNCHANGED << moduleClasses, layout, index >>

NextApi ==
  \/ Click
  \/ Scroll
  \/ TextChange
  \/ CallShowOverlay

SpecApi == Init /\ [][NextApi]_vars

(* ------------- repositioning over arbitrary measurements --------------- *)

Coords == 0..MaxCoord
ExampleLayout ==
  [ imgRect |-> [i \in Images |-> [left |-> 110, top |-> 40, width |-> 200, height |-> 150]],
    containerRect |-> [left |-> 100, top |-> 20],
    scrollLeft |-> 5, scrollTop |-> 0 ]
GeomLayouts ==
  { [ imgRect |-> [i \in Images |-> box], containerRect |-> c,
      scrollLeft |-> sl, scrollTop |-> st ] :
      box \in [left : Coords, top : Coords, width : Coords, height : Coords],
      c \in [left : Coords, top : Coords], sl \in Coords, st \in Coords }
    \cup {ExampleLayout}

(* the controller right after its construction *)
Constructed ==
  [ img |-> undefined, overlay |-> undefined, modules |-> <<>>,
    listeners |-> { Listener("root", "click", "handleClick", FALSE),
                    Listener("root", "mscontrolselect", "handleClick", FALSE),
                    Listener("root", "scroll", "handleScroll", FALSE) },
    children |-> {}, style |-> overlayStyles,
    selection |-> [index |-> 0, length |-> 0], nextEl |-> 1, nextInst |-> 1,
    log |-> <<>>, fault |-> NoFault, thrown |-> FALSE ]

(* image 1 has been clicked, and then the page was laid out anew *)
InitGeom ==
  /\ moduleClasses \in { <<"DisplaySize", "Resize">> }
  /\ index \in { [i \in Images |-> i - 1] }
  /\ layout \in GeomLayouts
  /\ LET s == handleClick(Constructed, 1, Layout(0, 5), index)
     IN /\ img = s.img
        /\ overlay = s.overlay
        /\ modules = s.modules
        /\ listeners = s.listeners
        /\ children = s.children
        /\ style = s.style
        /\ selection = s.selection
        /\ nextEl = s.nextEl
        /\ nextInst = s.nextInst
        /\ life = Replay(<<>>, s.log)
  /\ deleted = 0
  /\ evt = Event("layout", undefined, undefined)
  /\ log = <<>>

(* a text-change that moves nothing on the page *)
TextChangeInPlace ==
  /\ evt' = Event("text-change", undefined, undefined)
  /\ Apply(textChange(Cur, layout))
  /\ UNCHANGED << moduleClasses, layout, index >>

NextGeom ==
  \/ TextChangeInPlace
  \/ RequestUpdate

SpecGeom == InitGeom /\ [][NextGeom]_vars

(* ---------------------- reading the call log -------------------------- *)

Positions(l, ops) == { i \in 1..Len(l) : l[i].op \in ops }
Count(l, op) == Cardinality(Positions(l, {op}))
Has(l, e) == \E i \in 1..Len(l) : l[i] = e
Before(l, P, Q) == \A i \in P, j \in Q : i < j
Ids(ms) == [i \in 1..Len(ms) |-> ms[i].id]
Args(l, op) == LET sel == SelectSeq(l, LAMBDA e : e.op = op)
               IN [i \in 1..Len(sel) |-> sel[i].a]
IsClear(e) == e.op = "img" /\ e.a = undefined
ClearPositions(l) == { i \in 1..Len(l) : IsClear(l[i]) }
TeardownPositions(l) == Positions(l, {"onDestroy", "removeChild"}) \cup ClearPositions(l)
SetupPositions(l) ==
  (Positions(l, {"img", "setSelection", "addEventListener", "createElement",
                 "appendChild", "reposition", "new", "onCreate", "onUpdate"})
     \ ClearPositions(l))
Activation == evt'.type \in {"click", "mscontrolselect"}

(* ------------------------------ claims -------------------------------- *)

(* C1: activations that all target the same image create the overlay and   *)
(* the modules once: the first one creates one overlay element and one     *)
(* instance per configured module, each receiving onCreate once; every     *)
(* later one changes nothing and calls nothing.                            *)
C1_SameImageOnce ==
  [][ (Activation /\ evt'.target \in Images) =>
        /\ img = undefined =>
              /\ Count(log', "createElement") = 1
              /\ nextEl' = nextEl + 1
              /\ Count(log', "new") = Len(moduleClasses)
              /\ Len(modules') = Len(moduleClasses)
              /\ \A i \in 1..Len(modules') :
                    Cardinality({ j \in 1..Len(log') :
                       log'[j] = Ev("onCreate", modules'[i].id, i) }) = 1
        /\ img = evt'.target =>
              /\ UNCHANGED << img, overlay, modules, selection, listeners,
                              children, style, nextEl, nextInst >>
              /\ log' = <<>> ]_vars

C1_Witness ==
  /\ evt.type = "click" /\ evt.target = img
  /\ overlay # undefined /\ modules # <<>> /\ log = <<>>

(* C2: when image B is activated while image A is active, every teardown   *)
(* step of A (onDestroy of each instance of A, removal of A's overlay,     *)
(* clearing the image reference) happens, and happens before every setup   *)
(* step of B.                                                              *)
C2_TeardownBeforeSetup ==
  [][ (Activation /\ evt'.target \in Images /\ img \notin {undefined, evt'.target}) =>
        /\ Has(log', Ev("removeChild", overlay, 0))
        /\ \A i \in 1..Len(modules) : Has(log', Ev("onDestroy", modules[i].id, i))
        /\ Has(log', Ev("img", undefined, 0))
        /\ Has(log', Ev("img", evt'.target, 0))
        /\ Before(log', TeardownPositions(log'), SetupPositions(log')) ]_vars

C2_Witness ==
  /\ evt.type = "click" /\ img = evt.target
  /\ Count(log, "removeChild") = 1 /\ Count(log, "onDestroy") = 2
  /\ Count(log, "createElement") = 1 /\ Count(log, "onCreate") = 2

(* C3 as stated: in every Selected-to-Idle teardown, onDestroy runs on all *)
(* instances first, then the overlay is removed, then the image reference  *)
(* is cleared.                                                             *)
C3_DestroyThenRemove ==
  [][ (img # undefined /\ img' # img) =>
        /\ Before(log', Positions(log', {"onDestroy"}), Positions(log', {"removeChild"}))
        /\ Before(log', Positions(log', {"removeChild"}), ClearPositions(log')) ]_vars

(* C3 amended: in every Selected-to-Idle teardown the overlay element is   *)
(* removed from the container first, then onDestroy runs on all instances  *)
(* in instantiation order, then the image reference is cleared.            *)
C3_RemoveThenDestroy ==
  [][ (img # undefined /\ img' # img) =>
        LET t == TeardownPositions(log')
            first == CHOOSE i \in t : \A j \in t : i <= j
        IN /\ Cardinality(t) = Len(modules) + 2
           /\ log'[first] = Ev("removeChild", overlay, 0)
           /\ \A i \in 1..Len(modules) :
                 log'[first + i] = Ev("onDestroy", modules[i].id, i)
           /\ log'[first + Len(modules) + 1] = Ev("img", undefined, 0)
           /\ overlay \notin children' ]_vars

C3_Witness ==
  /\ img = undefined /\ evt.type = "scroll"
  /\ Count(log, "removeChild") = 1 /\ Count(log, "onDestroy") = 2

(* the geometry the overlay must have for image i under layout lay *)
Geometry(i, lay) ==
  [ left   |-> Px(lay.imgRect[i].left - lay.containerRect.left - 1 + lay.scrollLeft),
    top    |-> Px(lay.imgRect[i].top - lay.containerRect.top + lay.scrollTop),
    width  |-> Px(lay.imgRect[i].width),
    height |-> Px(lay.imgRect[i].height) ]

(* C4 as stated: a text-change received while Selected reapplies the       *)
(* overlay geometry and then calls onUpdate on every live instance; while  *)
(* Idle it changes nothing and calls nothing.                              *)
C4_TextChangeUpdatesModules ==
  [][ evt'.type = "text-change" =>
        /\ img # undefined =>
              /\ style' = Geometry(img, layout')
              /\ log' = <<Ev("reposition", overlay, 0)>> \o
                          [i \in 1..Len(modules) |-> Ev("onUpdate", modules[i].id, i)]
        /\ img = undefined =>
              /\ log' = <<>>
              /\ UNCHANGED << img, overlay, modules, listeners, children, style,
                              selection, nextEl, nextInst >> ]_vars

(* C4 amended: a text-change received while Selected reapplies the overlay *)
(* geometry and calls no module hook; while Idle it changes nothing and    *)
(* calls nothing.                                                          *)
C4_TextChangeRepositionsOnly ==
  [][ evt'.type = "text-change" =>
        /\ img # undefined =>
              /\ style' = Geometry(img, layout')
              /\ log' = <<Ev("reposition", overlay, 0)>>
              /\ UNCHANGED << img, overlay, modules, listeners, children,
                              selection, nextEl, nextInst >>
        /\ img = undefined =>
              /\ log' = <<>>
              /\ UNCHANGED << img, overlay, modules, listeners, children, style,
                              selection, nextEl, nextInst >> ]_vars

C4_Witness ==
  /\ evt.type = "text-change" /\ img # undefined /\ Len(modules) = 2
  /\ log = <<Ev("reposition", overlay, 0)>>
  /\ style = Geometry(img, layout)

ConstructionListeners ==
  { Listener("root", "click", "handleClick", FALSE),
    Listener("root", "mscontrolselect", "handleClick", FALSE),
    Listener("root", "scroll", "handleScroll", FALSE) }

(* C5: after a Selected-to-Idle teardown the registered listeners are      *)
(* those registered before the entry into Selected: in Idle only the       *)
(* listeners of the construction are registered, the keyup listener on the *)
(* document and the input listener on the editor root are not.             *)
C5_ListenersSymmetric ==
  img = undefined => listeners = ConstructionListeners

(* C6: a keyup with key code 46 or 8 received while Selected issues one    *)
(* delete command, deleteAt(0) on the blot of the active image, before any *)
(* teardown step, and then tears down completely.                          *)
C6_DeleteThenTeardown ==
  [][ (evt'.type = "keyup" /\ evt'.keyCode \in {46, 8} /\ img # undefined) =>
        /\ Count(log', "deleteAt") = 1
        /\ log'[1] = Ev("deleteAt", img, 0)
        /\ Before(log', Positions(log', {"deleteAt"}), TeardownPositions(log'))
        /\ \A i \in 1..Len(modules) : Has(log', Ev("onDestroy", modules[i].id, i))
        /\ Has(log', Ev("removeChild", overlay, 0))
        /\ Has(log', Ev("img", undefined, 0))
        /\ img' = undefined /\ overlay' = undefined /\ modules' = <<>>
        /\ children' = {} ]_vars

C6_Witness ==
  /\ evt.type = "keyup" /\ evt.keyCode = 46 /\ img = undefined
  /\ Count(log, "deleteAt") = 1 /\ Count(log, "onDestroy") = 2

(* C7: every batch of hooks runs in the order of the configured list:      *)
(* instance i is built from entry i of the list, and each of the onCreate, *)
(* onUpdate and onDestroy passes calls the instances first to last.        *)
C7_HooksInListOrder ==
  [][ /\ \A i \in 1..Len(modules') : modules'[i].cls = Resolve(moduleClasses[i])
      /\ Count(log', "new") > 0 => Args(log', "new") = Ids(modules')
      /\ Count(log', "onCreate") > 0 => Args(log', "onCreate") = Ids(modules')
      /\ Count(log', "onUpdate") > 0 => Args(log', "onUpdate") = Ids(modules')
      /\ Count(log', "onDestroy") > 0 => Args(log', "onDestroy") = Ids(modules)
      /\ \A i \in 1..Len(modules') : modules'[i].id = modules'[1].id + i - 1 ]_vars

C7_Witness ==
  /\ Len(modules) = 2
  /\ Count(log, "onDestroy") = 2 /\ Count(log, "onCreate") = 2
  /\ Count(log, "onUpdate") = 2

(* C8: every entry into Selected records the image, then issues one        *)
(* setSelection(index of the image, 0), then creates, attaches and         *)
(* positions the overlay, then builds and initializes the modules.         *)
C8_SetupOrder ==
  [][ (img' # undefined /\ img' # img) =>
        LET l == log'
            P(op) == Positions(l, {op})
            firstReposition == { i \in P("reposition") : \A j \in P("reposition") : i <= j }
        IN /\ Count(l, "setSelection") = 1
           /\ Has(l, Ev("setSelection", index[img'], 0))
           /\ selection' = [index |-> index[img'], length |-> 0]
           /\ Count(l, "createElement") = 1 /\ Count(l, "appendChild") = 1
           /\ Has(l, Ev("img", img', 0))
           /\ Has(l, Ev("appendChild", overlay', 0))
           /\ firstReposition # {}
           /\ Before(l, Positions(l, {"img"}) \ ClearPositions(l), P("setSelection"))
           /\ Before(l, P("setSelection"), P("createElement"))
           /\ Before(l, P("createElement"), P("appendChild"))
           /\ Before(l, P("appendChild"), firstReposition)
           /\ Before(l, firstReposition, Positions(l, {"new", "onCreate", "onUpdate"}))
           /\ Count(l, "new") = Len(moduleClasses) ]_vars

C8_Witness ==
  /\ img # undefined /\ evt.type = "click" /\ overlay \in children
  /\ Count(log, "setSelection") = 1 /\ Count(log, "new") = 2
  /\ style = Geometry(img, layout)

(* C9: module initialization on activation destroys old instances first,   *)
(* builds one instance per list entry in order, then calls onCreate on     *)
(* each in order, then repositions, then calls onUpdate on each in order:  *)
(* one onCreate and one onUpdate per instance, every onCreate before every *)
(* onUpdate, a reposition between them.                                    *)
C9_InitializeOrder ==
  [][ (img' # undefined /\ img' # img) =>
        LET l == log'
            n == Len(moduleClasses)
            hooks == Positions(l, {"new", "onCreate", "onUpdate"})
            first == CHOOSE i \in hooks : \A j \in hooks : i <= j
        IN /\ Before(l, Positions(l, {"onDestroy"}), Positions(l, {"new"}))
           /\ Len(modules') = n
           /\ n > 0 =>
                /\ \A i \in 1..n :
                      /\ l[first + i - 1] = Ev("new", modules'[i].id, i)
                      /\ l[first + n + i - 1] = Ev("onCreate", modules'[i].id, i)
                      /\ l[first + 2 * n + i] = Ev("onUpdate", modules'[i].id, i)
                /\ l[first + 2 * n] = Ev("reposition", overlay', 0)
                /\ Count(l, "new") = n /\ Count(l, "onCreate") = n
                /\ Count(l, "onUpdate") = n ]_vars

C9_Witness ==
  /\ img # undefined /\ Len(modules) = 2
  /\ Count(log, "onCreate") = 2 /\ Count(log, "onUpdate") = 2
  /\ Count(log, "reposition") = 2

(* C10: while Selected, a click on a non-image, an input event, a keyup    *)
(* and a scroll each leave the controller Idle and fully torn down: no     *)
(* image reference, no overlay, no module instance.                        *)
C10_DeselectSignals ==
  [][ (img # undefined /\ \/ (Activation /\ evt'.target = NonImage)
                          \/ evt'.type \in {"input", "keyup", "scroll"}) =>
        /\ img' = undefined /\ overlay' = undefined /\ modules' = <<>>
        /\ children' = {}
        /\ Has(log', Ev("removeChild", overlay, 0))
        /\ Count(log', "onDestroy") = Len(modules) ]_vars

C10_Witness ==
  /\ evt.type \in {"scroll", "input"} /\ img = undefined /\ overlay = undefined
  /\ modules = <<>> /\ Count(log, "removeChild") = 1 /\ Count(log, "onDestroy") = 2

(* C14: between handlers an overlay element exists iff the image          *)
(* reference is set, at most one overlay element is attached to the        *)
(* container, and module instances exist only while the image reference is *)
(* set, then one per entry of the configured list.                         *)
C14_OverlayIffImage ==
  /\ (overlay # undefined) <=> (img # undefined)
  /\ Cardinality(children) <= 1
  /\ children = IF overlay = undefined THEN {} ELSE {overlay}
  /\ img = undefined => modules = <<>>
  /\ img # undefined => Len(modules) = Len(moduleClasses)

C14_Witness ==
  /\ img # undefined /\ overlay \in children /\ Len(modules) = 2
  /\ evt.type = "update" /\ nextEl = 3

(* C15: while Idle, a click on a non-image, a scroll, a keyup with any key *)
(* code, an input and a text-change make the controller do nothing: no     *)
(* field changes, no hook, no setSelection, no delete, no other call.      *)
C15_IdleIgnoresSignals ==
  [][ (img = undefined /\ \/ (Activation /\ evt'.target = NonImage)
                          \/ evt'.type \in {"scroll", "keyup", "input", "text-change"}) =>
        /\ log' = <<>>
        /\ UNCHANGED << img, overlay, modules, listeners, children, style,
                        selection, nextEl, nextInst >> ]_vars

C15_Witness ==
  /\ img = undefined /\ overlay = undefined /\ log = <<>>
  /\ evt.type = "keyup" /\ evt.keyCode = KeyDelete

CaptureListeners ==
  { Listener("document", "keyup", "checkImage", TRUE),
    Listener("root", "input", "checkImage", TRUE) }

(* C19: the controller never holds more than five listener registrations, *)
(* the three of the construction and the capture-phase keyup and input     *)
(* ones, however many selections are made; the three of the construction   *)
(* are never removed.                                                      *)
C19_ListenersBounded ==
  /\ Cardinality(listeners) <= 5
  /\ ConstructionListeners \subseteq listeners
  /\ listeners \subseteq ConstructionListeners \cup CaptureListeners

C19_Witness ==
  /\ nextEl = 3 /\ img # undefined /\ Cardinality(listeners) = 5
  /\ evt.type = "mscontrolselect"

(* C18: every module instance is constructed, then receives onCreate      *)
(* once, then onUpdate one or more times, then onDestroy once, and nothing *)
(* after that; a new instance is never an old one; the live instances are  *)
(* exactly those of this.modules, and in Idle every instance ever built    *)
(* has received its onDestroy.                                             *)
C18_InstanceLifecycle ==
  /\ Len(life) = nextInst - 1
  /\ \A i \in 1..Len(life) :
        /\ life[i] # "bad"
        /\ (\E k \in 1..Len(modules) : modules[k].id = i) => life[i] = "updated"
        /\ (\A k \in 1..Len(modules) : modules[k].id # i) => life[i] = "destroyed"
        /\ img = undefined => life[i] = "destroyed"
  /\ \A k \in 1..Len(modules) : modules[k].id \in 1..Len(life)

C18_Witness ==
  /\ img = undefined /\ Len(life) = 4
  /\ \A i \in 1..Len(life) : life[i] = "destroyed"

(* C20: a handler issues a delete command exactly when it runs for a keyup *)
(* with key code 46 or 8 while an image is active; any other keyup and any *)
(* input received while Selected only tear down; a keyup received while    *)
(* Idle issues nothing; the delete commands issued never outnumber the     *)
(* entries into Selected.                                                  *)
C20_DeleteIffDeleteKey ==
  [][ LET issued == Count(log', "deleteAt")
          due == IF evt'.type = "keyup" /\ evt'.keyCode \in {46, 8} /\ img # undefined
                 THEN 1 ELSE 0
      IN /\ issued = due
         /\ deleted' = deleted + issued
         /\ deleted' <= nextEl' - 1
         /\ (img # undefined /\ evt'.type \in {"keyup", "input"}) =>
               /\ img' = undefined /\ overlay' = undefined /\ modules' = <<>>
               /\ Has(log', Ev("removeChild", overlay, 0)) ]_vars

C20_Witness ==
  /\ evt.type = "keyup" /\ evt.keyCode = 13 /\ img = undefined
  /\ Count(log, "removeChild") = 1 /\ Count(log, "deleteAt") = 0
  /\ deleted = 1 /\ nextEl = 3

(* C11 as stated: showOverlay called while an overlay exists keeps that   *)
(* overlay element attached, attaches no new element, issues no            *)
(* setSelection and registers no listener.                                 *)
C11_CreateIsNoOp ==
  [][ evt'.type = "showOverlay" =>
        /\ overlay' = overlay /\ children' = children
        /\ Count(log', "appendChild") = 0
        /\ Count(log', "setSelection") = 0
        /\ Count(log', "addEventListener") = 0 ]_vars

(* C11 amended: showOverlay called while an overlay exists replaces it: it *)
(* removes the existing element, issues one setSelection at the index of   *)
(* the image, registers the keyup and input listeners again (which adds    *)
(* no registration), and creates, attaches and positions a new element, so *)
(* that exactly one overlay element, the new one, is attached afterwards.  *)
C11_CreateReplaces ==
  [][ evt'.type = "showOverlay" =>
        /\ overlay' = nextEl /\ overlay' # overlay
        /\ children' = {overlay'}
        /\ log' = << Ev("removeChild", overlay, 0),
                     Ev("setSelection", index[img], 0),
                     Ev("addEventListener", 1, 1), Ev("addEventListener", 2, 1),
                     Ev("createElement", overlay', 0), Ev("appendChild", overlay', 0),
                     Ev("reposition", overlay', 0) >>
        /\ style' = Geometry(img, layout)
        /\ UNCHANGED << img, modules, listeners, nextInst >> ]_vars

C11_Witness ==
  /\ evt.type = "showOverlay" /\ overlay = 2 /\ children = {2}
  /\ Count(log, "removeChild") = 1 /\ Count(log, "appendChild") = 1

(* C12: repositioning with an overlay and an active image sets the overlay *)
(* to left = image.left - container.left - 1 + scrollLeft, top = image.top *)
(* - container.top + scrollTop, width and height those of the image, for   *)
(* all measurements; the example boxes give 14, 20, 200, 150.              *)
C12_GeometryFormula ==
  (evt.type \in {"text-change", "update"} /\ img # undefined /\ overlay # undefined) =>
    LET image == layout.imgRect[img]
        container == layout.containerRect
    IN /\ style.left.n = image.left - container.left - 1 + layout.scrollLeft
       /\ style.top.n = image.top - container.top + layout.scrollTop
       /\ style.width.n = image.width
       /\ style.height.n = image.height
       /\ \A side \in {"left", "top", "width", "height"} : style[side].unit = "px"
       /\ layout = ExampleLayout =>
             style = [left |-> Px(14), top |-> Px(20), width |-> Px(200), height |-> Px(150)]

C12_Witness ==
  /\ evt.type = "text-change" /\ layout = ExampleLayout
  /\ style.left = Px(14) /\ style.top = Px(20)
  /\ log = <<Ev("reposition", overlay, 0)>>

(* C13: a handler that repositions right after a handler that repositioned, *)
(* with the same measurements, leaves the overlay geometry as it was and   *)
(* changes neither the image reference, the module list nor the listeners. *)
C13_RepositionIdempotent ==
  [][ (/\ Has(log, Ev("reposition", overlay, 0))
       /\ Has(log', Ev("reposition", overlay, 0))
       /\ evt'.type \in {"text-change", "update"}
       /\ layout' = layout) =>
        /\ style' = style
        /\ UNCHANGED << img, overlay, modules, listeners, children, selection >> ]_vars

C13_Witness ==
  /\ evt.type = "update" /\ layout = ExampleLayout
  /\ style = [left |-> Px(14), top |-> Px(20), width |-> Px(200), height |-> Px(150)]
  /\ Count(log, "onUpdate") = 2

Threw(l) == Count(l, "throw") > 0

(* C16: after an activation of an image that faulted part-way (in a       *)
(* constructor or in onCreate), the next activation of an image, the same  *)
(* image included, that does not fault itself leaves that image fully      *)
(* selected: overlay attached and positioned, every configured module      *)
(* built, created and updated.                                             *)
C16_SelfHeals ==
  [][ (/\ evt.type = "click" /\ evt.target \in Images
       /\ Has(log, Ev("img", evt.target, 0)) /\ Threw(log)
       /\ Activation /\ evt'.target \in Images /\ ~Threw(log')) =>
        /\ img' = evt'.target
        /\ overlay' # undefined /\ children' = {overlay'}
        /\ style' = Geometry(img', layout')
        /\ Len(modules') = Len(moduleClasses)
        /\ \A i \in 1..Len(modules') : life'[modules'[i].id] = "updated" ]_vars

(* C17: once a teardown of the active image has begun, by the end of the   *)
(* handler every live instance has received onDestroy, the overlay is      *)
(* removed and the image reference has been cleared, also when an          *)
(* onDestroy hook throws.                                                  *)
C17_TeardownUnconditional ==
  [][ (img # undefined /\ \/ evt'.type \in {"scroll", "keyup", "input"}
                          \/ (Activation /\ evt'.target # img)) =>
        /\ \A i \in 1..Len(modules) : Has(log', Ev("onDestroy", modules[i].id, i))
        /\ overlay \notin children'
        /\ Has(log', Ev("img", undefined, 0)) ]_vars

====
